---- MODULE Spec2Model ----
(***************************************************************************)
(* Model of lintai/ui/server.py: the run registry kept in runs.json, the   *)
(* submit handlers (scan, inventory), the background completion task made  *)
(* by _kick, and the helpers they call.                                    *)
(*                                                                         *)
(* Threads.  `inventory` is a plain def, so the framework runs each call   *)
(* in a worker thread; `scan` is an async def and runs on the event loop,  *)
(* which it leaves only at `await up.read()` for an uploaded file, so from *)
(* there to the end of _add_run it does not yield; the task registered by  *)
(* _kick is a plain def and runs in a worker thread after the handler's    *)
(* response.  No lock guards runs.json or config.json, so the steps of     *)
(* _add_run and _set_status (read, truncate, write), of cfg_set and of the *)
(* handlers of different threads interleave.                               *)
(***************************************************************************)
EXTENDS Naturals, Sequences, FiniteSets, Bags, TLC

\* ------------------------------------------------------------- bounds
\* Number of submissions in a behaviour of the server.
MaxRuns == 2
\* Number of records the registry file may hold in the sequential registry
\* specification.
MaxRecs == 3
\* Number of files uploaded with one scan request.
MaxUploads == 1
\* Number of RunSummary of a behaviour of the server created at a whole second
\* (the registry calls made one at a time create them at any time).
MaxWhole == 0
\* Number of cfg_set requests inside write_text at one time.
MaxCfgWriters == 2

RunIds == 1..MaxRuns

\* ------------------------------------------------------------- paths
\* A path string is the sequence of its components; a leading "/" component
\* makes it absolute, "~" is the home directory, <<>> is None (or "").
NoPath == <<>>
ROOT == <<"/", "ws">>
HOME == <<"/", "root">>
\* _load_cfg().source_path when no config.json exists (ConfigModel default ".").
source_path == <<".">>

\* Request paths: none given (the configured source_path, inside the workspace)
\* and one that climbs out of the workspace.
PathInputs == { NoPath, <<"..", "etc">> }

IsAbs(p) == Len(p) > 0 /\ p[1] = "/"

\* Path(path): pathlib drops every "." component when it parses the text
PathOf(p) == SelectSeq(p, LAMBDA c : c # ".")

\* the first component names a home directory: "~" (the server's own user),
\* "~root" (a user of the machine), "~nouser" (no such user)
Tilde == {"~", "~root", "~nouser"}
StartsWithTilde(p) == Len(p) > 0 /\ p[1] \in Tilde

\* Path.expanduser raises RuntimeError("Could not determine home directory.")
\* when the user after "~" is unknown
ExpandRaises(p) == Len(p) > 0 /\ p[1] = "~nouser"

\* Path.expanduser: a relative path whose first component starts with "~"
\* gets the home directory in its place
expanduser(p) == IF StartsWithTilde(p) THEN HOME \o Tail(p) ELSE p

\* ROOT / p : an absolute right operand replaces the left one
Join(base, p) == IF IsAbs(p) THEN p ELSE base \o p

\* Path.resolve on a tree without symbolic links: "." is dropped, ".." pops
\* a component and stays at "/" when there is none to pop.
RECURSIVE Normalize(_, _)
Normalize(acc, rest) ==
    IF rest = <<>> THEN acc
    ELSE LET c == Head(rest) IN
         IF c = "." THEN Normalize(acc, Tail(rest))
         ELSE IF c = ".."
              THEN Normalize(IF Len(acc) > 1 THEN SubSeq(acc, 1, Len(acc) - 1) ELSE acc,
                             Tail(rest))
              ELSE Normalize(Append(acc, c), Tail(rest))

resolve(p) == Normalize(<<"/">>, Tail(p))

\* Path.is_relative_to
is_relative_to(p, base) ==
    Len(p) >= Len(base) /\ SubSeq(p, 1, Len(base)) = base

\* _safe ends with RuntimeError (expanduser), an internal error
SafeFails(path) == ExpandRaises(PathOf(path))

\* _safe: the resolved path, and whether HTTPException(403) is raised
SafeResolved(path) == resolve(Join(ROOT, expanduser(PathOf(path))))
SafeRaises(path) == ~ SafeFails(path) /\ ~ is_relative_to(SafeResolved(path), ROOT)

\* ------------------------------------------------------------- records
Kinds == {"scan", "inventory"}
Statuses == {"pending", "done", "error"}

\* datetime <-> ISO-8601 text (json.dumps default= o.isoformat(); pydantic parses
\* the text back into an aware datetime)
\* A datetime is its time to the second (t), its microsecond (us: 0, or 1 for
\* any other value) and its zone; isoformat() leaves the fraction out when the
\* microsecond is 0.
isoformat(dt) ==
    IF dt.us = 0 THEN <<dt.t, "+00:00">> ELSE <<dt.t, dt.us, "+00:00">>
\* the text parsed with its UTC offset dropped (a naive datetime)
parse_datetime_naive(s) ==
    [t |-> s[1], us |-> IF Len(s) = 2 THEN 0 ELSE s[2], tz |-> "naive"]

parse_datetime(s) ==
    [t |-> s[1], us |-> IF Len(s) = 2 THEN 0 ELSE s[2], tz |-> "UTC"]
now(clk, us) == [t |-> clk, us |-> us, tz |-> "UTC"]

\* RunSummary(...)
RunSummary(rid, kind, dt, st, path) ==
    [run_id |-> rid, type |-> kind, created |-> dt, status |-> st, path |-> path]

\* r.model_dump() followed by json.dumps: one JSON object of runs.json
model_dump(r) ==
    [run_id |-> r.run_id, type |-> r.type, created |-> isoformat(r.created),
     status |-> r.status, path |-> r.path]

\* RunSummary.model_validate(d) of one JSON object of runs.json
model_validate(d) ==
    [run_id |-> d.run_id, type |-> d.type, created |-> parse_datetime(d.created),
     status |-> d.status, path |-> d.path]

\* ------------------------------------------------------------- runs.json
\* The length in characters of the text json.dumps(..., indent=2) makes of
\* the records: "[]" for none; else "[\n", the records joined by ",\n", and
\* "\n]".  A record is 129 characters plus its created text (32 characters, 25
\* without the fraction), type, status and path.
NameLen(c) == IF c = "." THEN 1 ELSE IF c = ".." THEN 2 ELSE 3
RECURSIVE PathTextLen(_)
PathTextLen(p) ==
    IF p = <<>> THEN 0
    ELSE IF Len(p) = 1 THEN NameLen(p[1])
         ELSE NameLen(p[1]) + 1 + PathTextLen(Tail(p))
WordLen(w) ==
    IF w \in {"scan", "done"} THEN 4
    ELSE IF w = "error" THEN 5
         ELSE IF w = "pending" THEN 7 ELSE 9
RecordSize(d) ==
    129 + (IF Len(d.created) = 2 THEN 25 ELSE 32)
        + WordLen(d.type) + WordLen(d.status) + PathTextLen(d.path)
RECURSIVE TextSize(_)
TextSize(objs) ==
    IF objs = <<>> THEN 2 ELSE RecordSize(Head(objs)) + 2 + TextSize(Tail(objs))

\* The file: absent, or present with its text of `size` characters.
\* `complete` is FALSE while the text is not one whole JSON document: after
\* open(..., "w") truncated the file and before the new text is written, or
\* when a text is followed by the rest of a longer one; `recs` are the JSON
\* objects of a whole document.
AbsentFile == [exists |-> FALSE, complete |-> TRUE, recs |-> <<>>, size |-> 0]
TruncatedFile == [exists |-> TRUE, complete |-> FALSE, recs |-> <<>>, size |-> 0]
WrittenFile(objs) ==
    [exists |-> TRUE, complete |-> TRUE, recs |-> objs, size |-> TextSize(objs)]
GarbledFile(n) == [exists |-> TRUE, complete |-> FALSE, recs |-> <<>>, size |-> n]

\* write_text / write_bytes after the open: the text goes to offset 0 of the
\* writer's own file object and replaces that many characters of what the
\* file holds by now; what a longer text has beyond it stays
WriteOver(file, text) ==
    IF text.size >= file.size THEN text ELSE GarbledFile(file.size)

\* json.loads(path.read_text()) raises JSONDecodeError on an incomplete text
LoadRaises(file) == file.exists /\ ~ file.complete

\* _json_load(path, default)
JsonLoad(file, default) == IF file.exists THEN file.recs ELSE default

\* _runs()
Runs(file) ==
    LET objs == JsonLoad(file, <<>>) IN
    [i \in 1..Len(objs) |-> model_validate(objs[i])]

\* _save_runs(lst): the text _json_dump writes
SaveRunsText(lst) == [i \in 1..Len(lst) |-> model_dump(lst[i])]

\* the list work of _add_run: lst.append(r)
AddRunList(lst, r) == Append(lst, r)

\* the list work of _set_status: the first record with run_id = rid gets
\* status st (break), the other records are left alone
FirstIndex(lst, rid) ==
    IF \E i \in 1..Len(lst) : lst[i].run_id = rid
    THEN CHOOSE i \in 1..Len(lst) :
            /\ lst[i].run_id = rid
            /\ \A j \in 1..(i - 1) : lst[j].run_id # rid
    ELSE 0

\* _set_status with the run_id test of its loop lost: every record gets st
SetStatusList_AnyRecord(lst, rid, st) ==
    [k \in 1..Len(lst) |-> [lst[k] EXCEPT !.status = st]]

SetStatusList(lst, rid, st) ==
    LET k == FirstIndex(lst, rid) IN
    IF k = 0 THEN lst ELSE [lst EXCEPT ![k].status = st]

\* _add_run(r) run from its read to the end of its write
AddRunFile(file, r) == WrittenFile(SaveRunsText(AddRunList(Runs(file), r)))

\* _set_status(rid, st) run from its read to the end of its write
SetStatusFile(file, rid, st) ==
    WrittenFile(SaveRunsText(SetStatusList(Runs(file), rid, st)))

\* results(): next((r for r in _runs() if r.run_id == rid), None)
NoRun == [run_id |-> 0]
lookup(file, rid) ==
    LET lst == Runs(file)
        k == FirstIndex(lst, rid)
    IN IF k = 0 THEN NoRun ELSE lst[k]

\* ------------------------------------------------------------- config.json
\* CONFIG_JSON is a file like RUNS_FILE; its JSON object is a ConfigModel, of
\* which source_path and ruleset are kept (the other fields have their
\* defaults in every request)
\* cfg.model_dump_json(indent=2) of a body b: 103 characters plus source_path
\* and ruleset (null, or the 25 characters of "rules/custom-ruleset.yaml" in
\* quotes)
CfgText(b) ==
    [exists |-> TRUE, complete |-> TRUE, recs |-> b,
     size |-> 103 + PathTextLen(b.source_path)
                  + (IF b.ruleset = "null" THEN 4 ELSE 27)]

\* the file and the bag of the bodies of the cfg_set requests that have opened
\* it and not yet written
CfgAbsent == [file |-> AbsentFile, writing |-> EmptyBag]

\* the bodies a client posts to /api/config: a source_path above the
\* workspace root, without and with a ruleset
CfgInputs ==
    { [source_path |-> <<"..", "etc">>, ruleset |-> r] :
         r \in {"null", "rules/custom-ruleset.yaml"} }

\* _load_cfg(): model_validate_json raises on a text that is not one JSON
\* object; an absent file gives ConfigModel()
LoadCfgRaises(c) == LoadRaises(c.file)
LoadCfg(c) == JsonLoad(c.file, [source_path |-> source_path, ruleset |-> "null"])

\* ------------------------------------------------------------- state
VARIABLES
    runsFile,   \* RUNS_FILE on disk
    pc,         \* per run: where its handler / background task stands
    run,        \* per run: the RunSummary its handler built
    req,        \* per run: the request (kind, path, uploaded files), the
                \* target its command line got, and whether its client has
                \* seen the run's record
    lst,        \* per run: the thread-local list read by _add_run / _set_status
    outcome,    \* per run: how subprocess.run ended
    clock,      \* datetime.now: one tick per RunSummary created
    reports,    \* the report files on disk: report path -> JSON content
    cfg,        \* CONFIG_JSON on disk and the cfg_set requests writing it
    lastOp      \* sequential registry specification: the last call made

vars == <<runsFile, pc, run, req, lst, outcome, clock, reports, cfg, lastOp>>

NoOp == [op |-> "none"]
\* no report file yet
NoReports == [p \in {} |-> {}]
NoReq ==
    [kind |-> "none", path |-> NoPath, files |-> <<>>, uploaded |-> FALSE,
     target |-> NoPath, seen |-> FALSE]

Init ==
    /\ runsFile = AbsentFile
    /\ pc = [i \in RunIds |-> "new"]
    /\ run = [i \in RunIds |-> NoRun]
    /\ req = [i \in RunIds |-> NoReq]
    /\ lst = [i \in RunIds |-> <<>>]
    /\ outcome = [i \in RunIds |-> "none"]
    /\ clock = 0
    /\ reports = NoReports
    /\ cfg = CfgAbsent
    /\ lastOp = NoOp

\* POST /api/config: cfg_set runs in the thread pool without a lock;
\* _save_cfg(cfg) -> write_text opens config.json for writing (truncates) ...
CfgTrunc(b) ==
    /\ BagCardinality(cfg.writing) < MaxCfgWriters
    /\ cfg' = [file |-> TruncatedFile, writing |-> cfg.writing (+) SetToBag({b})]
    /\ UNCHANGED <<runsFile, pc, run, req, lst, outcome, clock, reports, lastOp>>

\* ... and writes the text at the start of the file
CfgWrite(b) ==
    /\ BagIn(b, cfg.writing)
    /\ cfg' = [file |-> WriteOver(cfg.file, CfgText(b)),
               writing |-> cfg.writing (-) SetToBag({b})]
    /\ UNCHANGED <<runsFile, pc, run, req, lst, outcome, clock, reports, lastOp>>

\* datetime.now(timezone.utc): the microsecond the clock may read
Micros ==
    IF Cardinality({j \in RunIds : run[j].run_id # 0 /\ run[j].created.us = 0})
          < MaxWhole
    THEN {0, 1} ELSE {1}

\* uuid.uuid4(): an id no earlier submission has
FreshId(i) == pc[i] = "new" /\ \A j \in RunIds : j < i => pc[j] # "new"

\* the event loop is busy with a scan handler: from the end of its await to
\* the end of _add_run the handler does not yield
LoopBusy ==
    \E j \in RunIds :
        /\ req[j].kind = "scan"
        /\ pc[j] \in {"upload_write", "upload_done",
                     "add_read", "add_trunc", "add_write"}

\* _report_path(rid, kind): DATA_DIR / rid / the file name of the kind
ReportPath(rid, kind) ==
    <<rid, IF kind = "scan" THEN "scan_report.json" ELSE "inventory.json">>

\* the --output argument of the command line: out = _report_path(rid, RunType.x)
\* with the handler's own kind
OutputPath(i) == ReportPath(i, run[i].type)

\* a report file that is no JSON document (empty, or a text followed by the
\* rest of a longer one): json.loads of it raises
BrokenReport == [broken |-> TRUE]

\* the file system after a file is written at path
WriteReport(reps, path, content) ==
    [p \in (DOMAIN reps) \cup {path} |-> IF p = path THEN content ELSE reps[p]]

\* Uploaded files (UploadFile): the client's file name (its components) and
\* content.  A source file; a file named like the report of a scan; files
\* named "../runs.json" and "../config.json" holding the text "x"; a file
\* named "../runs.json" holding the record of a run the client knows with its
\* status changed to done; a file named like the report of a run the client
\* knows, in that run's directory.  The client knows a run (its run_id) once
\* GET /api/runs has listed its record or the submission was answered.
ForgedUpload(r) ==
    [name |-> <<"..", "runs.json">>,
     recs |-> << model_dump([r EXCEPT !.status = "done"]) >>]

\* files: no file, or up to MaxUploads files
UploadInputs ==
    LET Known == {k \in RunIds : req[k].seen}
        Uploads ==
            { [name |-> n, recs |-> <<>>] :
                 n \in { <<"a.py">>, <<"scan_report.json">>,
                         <<"..", "runs.json">>, <<"..", "config.json">> } }
            \cup { ForgedUpload(run[j]) : j \in Known }
            \cup { [name |-> <<"..">> \o ReportPath(j, run[j].type), recs |-> <<>>] :
                       j \in Known }
    IN UNION { [1..n -> Uploads] : n \in 0..MaxUploads }

\* dest = work / up.filename, as a path under DATA_DIR: the name is taken as
\* the client sent it, and ".." leaves the run's directory; <<"runs.json">>
\* is RUNS_FILE and <<"config.json">> is CONFIG_JSON
Dest(rid, name) == IF name[1] = ".." THEN Tail(name) ELSE <<rid>> \o name

\* the bytes of an upload written to RUNS_FILE, as a registry file
UploadedRegistry(u) == IF u.recs = <<>> THEN GarbledFile(1) ELSE WrittenFile(u.recs)
\* the JSON of an upload named like a report
UploadedReport == [type |-> "scan", findings |-> <<>>]

\* scan(): target / reported_path;  inventory(): path or source_path
\* DATA_DIR / rid, the run's own directory ("<rid>" stands for str(rid))
WorkDir(rid) == <<"/", "tmp", "lintai-ui", "<rid>">>
ScanTarget(path, files, rid, c) ==
    IF files THEN WorkDir(rid)
    ELSE IF path # NoPath THEN path ELSE LoadCfg(c).source_path
ScanReported(path, files, rid, c) ==
    IF files THEN (IF path # NoPath THEN path ELSE <<".">>)
    ELSE ScanTarget(path, files, rid, c)
InventoryTarget(path, c) == IF path # NoPath THEN path ELSE LoadCfg(c).source_path

\* the path handed to the tool as its positional target
Target(i) == req[i].target

\* the target is a path of the request (not the directory the handler made
\* for uploaded files)
UserTarget(i) == ~ req[i].uploaded

\* scan() from "3) decide what to scan" to the call of _add_run: the target
\* (_load_cfg), the command (_common_flags and _env_cli_flags call _load_cfg),
\* _kick (bg.add_task), the pending RunSummary.  _load_cfg raising ends the
\* request with a 500 before _kick.  `files` tells whether files were
\* uploaded, c is config.json as the handler finds it.
ScanRest(i, path, files, c) ==
    IF LoadCfgRaises(c)
    THEN /\ pc' = [pc EXCEPT ![i] = "http500"]
         /\ req' = [req EXCEPT ![i] = [kind |-> "scan", path |-> path,
                                       files |-> <<>>, uploaded |-> files, seen |-> FALSE,
                                       target |-> NoPath]]
         /\ UNCHANGED <<run, clock>>
    ELSE /\ clock' = clock + 1
         /\ req' = [req EXCEPT ![i] = [kind |-> "scan", path |-> path,
                                       files |-> <<>>, uploaded |-> files, seen |-> FALSE,
                                       target |-> ScanTarget(path, files, i, c)]]
         /\ \E us \in Micros :
               run' = [run EXCEPT ![i] =
                          RunSummary(i, "scan", now(clock', us), "pending",
                                     ScanReported(path, files, i, c))]
         /\ pc' = [pc EXCEPT ![i] = "add_read"]

\* POST /api/scan: rid, work.mkdir(); without files on to the call of
\* _add_run; with files up to the first `await up.read()`, where the handler
\* leaves the event loop to others
SubmitScan(i, path, files) ==
    /\ FreshId(i)
    /\ ~ LoopBusy
    /\ IF files = <<>>
       THEN ScanRest(i, path, FALSE, cfg)
       ELSE /\ req' = [req EXCEPT ![i] = [kind |-> "scan", path |-> path,
                                          files |-> files, uploaded |-> TRUE,
                                          seen |-> FALSE,
                                          target |-> NoPath]]
            /\ pc' = [pc EXCEPT ![i] = "upload"]
            /\ UNCHANGED <<run, clock>>
    /\ UNCHANGED <<runsFile, lst, outcome, lastOp, reports, cfg>>

\* the handler is resumed: dest = work / up.filename, dest.write_bytes(...)
\* opens the file (truncates) here and writes in the next step.  A dest that
\* is RUNS_FILE or CONFIG_JSON is that file; a dest named like a report is
\* the report file of the run whose directory it is in; any other file is a
\* source file, which nothing reads: it is opened and written here.
ResumeScan(i) ==
    /\ pc[i] = "upload"
    /\ ~ LoopBusy
    /\ LET dest == Dest(i, Head(req[i].files).name) IN
       IF Len(dest) = 1
       THEN /\ IF dest = <<"runs.json">>
               THEN runsFile' = TruncatedFile /\ UNCHANGED cfg
               ELSE cfg' = [cfg EXCEPT !.file = TruncatedFile] /\ UNCHANGED runsFile
            /\ pc' = [pc EXCEPT ![i] = "upload_write"]
            /\ UNCHANGED <<run, req, clock, reports>>
       ELSE IF dest[2] \in {"scan_report.json", "inventory.json"}
            THEN /\ reports' = WriteReport(reports, dest, BrokenReport)
                 /\ pc' = [pc EXCEPT ![i] = "upload_write"]
                 /\ UNCHANGED <<run, req, clock, runsFile, cfg>>
            ELSE /\ pc' = [pc EXCEPT ![i] = "upload_done"]
                 /\ UNCHANGED <<run, req, clock, runsFile, cfg, reports>>
    /\ UNCHANGED <<lst, outcome, lastOp>>

\* write_bytes writes the uploaded text at the start of the file.  Over a
\* report the tool has written since the open, the text replaces the start
\* of the tool's text: the file is the
\* uploaded report, or (the tool's text being longer) no JSON document.
UploadWrite(i) ==
    /\ pc[i] = "upload_write"
    /\ LET u == Head(req[i].files)
           dest == Dest(i, u.name)
       IN IF Len(dest) = 1
          THEN /\ IF dest = <<"runs.json">>
                  THEN /\ runsFile' = WriteOver(runsFile, UploadedRegistry(u))
                       /\ UNCHANGED cfg
                  ELSE /\ cfg' = [cfg EXCEPT !.file = WriteOver(@, GarbledFile(1))]
                       /\ UNCHANGED runsFile
               /\ UNCHANGED reports
          ELSE /\ \E whole \in IF reports[dest] = BrokenReport
                                THEN {TRUE} ELSE BOOLEAN :
                     reports' = WriteReport(reports, dest,
                                            IF whole THEN UploadedReport
                                            ELSE BrokenReport)
               /\ UNCHANGED <<runsFile, cfg>>
    /\ pc' = [pc EXCEPT ![i] = "upload_done"]
    /\ UNCHANGED <<run, req, clock, lst, outcome, lastOp>>

\* the loop `for up in files` after a file is written: on to the next
\* `await up.read()`, or after the last file to the call of _add_run.  The
\* handler holds the event loop from the write to here, but cfg_set and the
\* other handlers in worker threads run in between: config.json is read as
\* it is at this step.
UploadDone(i) ==
    /\ pc[i] = "upload_done"
    /\ IF Len(req[i].files) > 1
       THEN /\ req' = [req EXCEPT ![i].files = Tail(@)]
            /\ pc' = [pc EXCEPT ![i] = "upload"]
            /\ UNCHANGED <<run, clock>>
       ELSE ScanRest(i, req[i].path, TRUE, cfg)
    /\ UNCHANGED <<runsFile, cfg, reports, lst, outcome, lastOp>>

\* POST /api/inventory up to _kick: out, the command (path or
\* _load_cfg().source_path, _common_flags, _env_cli_flags), bg.add_task
SubmitInventory(i, path) ==
    /\ FreshId(i)
    /\ req' = [req EXCEPT ![i] =
                  [kind |-> "inventory", path |-> path, files |-> <<>>,
                   uploaded |-> FALSE, seen |-> FALSE,
                   target |-> IF LoadCfgRaises(cfg) THEN NoPath
                              ELSE InventoryTarget(path, cfg)]]
    /\ pc' = [pc EXCEPT ![i] = IF LoadCfgRaises(cfg) THEN "http500" ELSE "inv_record"]
    /\ UNCHANGED <<runsFile, run, lst, outcome, clock, lastOp, reports, cfg>>

\* inventory(): the RunSummary, whose path is path or _load_cfg().source_path
\* read once more; _load_cfg raising ends the request with a 500, and the
\* task registered with bg is never run
RecordInventory(i) ==
    /\ pc[i] = "inv_record"
    /\ IF req[i].path = NoPath /\ LoadCfgRaises(cfg)
       THEN /\ pc' = [pc EXCEPT ![i] = "http500"]
            /\ UNCHANGED <<run, clock>>
       ELSE /\ clock' = clock + 1
            /\ \E us \in Micros :
                  run' = [run EXCEPT ![i] =
                             RunSummary(i, "inventory", now(clock', us), "pending",
                                        InventoryTarget(req[i].path, cfg))]
            /\ pc' = [pc EXCEPT ![i] = "add_read"]
    /\ UNCHANGED <<runsFile, req, lst, outcome, lastOp, reports, cfg>>

\* _add_run: lst = _runs(); lst.append(r).  A JSONDecodeError leaves the handler
\* with a 500 response, and the task registered with bg is never run.
AddRead(i) ==
    /\ pc[i] = "add_read"
    /\ IF LoadRaises(runsFile)
       THEN /\ pc' = [pc EXCEPT ![i] = "http500"]
            /\ UNCHANGED lst
       ELSE /\ lst' = [lst EXCEPT ![i] = AddRunList(Runs(runsFile), run[i])]
            /\ pc' = [pc EXCEPT ![i] = "add_trunc"]
    /\ UNCHANGED <<runsFile, run, req, outcome, clock, lastOp, reports, cfg>>

\* _save_runs -> _json_dump -> path.write_text: open(path, "w") truncates
AddTrunc(i) ==
    /\ pc[i] = "add_trunc"
    /\ runsFile' = TruncatedFile
    /\ pc' = [pc EXCEPT ![i] = "add_write"]
    /\ UNCHANGED <<run, req, lst, outcome, clock, lastOp, reports, cfg>>

\* ... then the text is written at the start of the file and the file closed;
\* the handler returns: of the request the task keeps the command (its
\* target), the path parameter is gone.  GET /api/runs lists the record from
\* now on, when the file is a whole document.
AddWrite(i) ==
    /\ pc[i] = "add_write"
    /\ runsFile' = WriteOver(runsFile, WrittenFile(SaveRunsText(lst[i])))
    /\ pc' = [pc EXCEPT ![i] = "task"]
    /\ req' = [req EXCEPT ![i].path = NoPath, ![i].seen = runsFile'.complete]
    /\ UNCHANGED <<run, lst, outcome, clock, lastOp, reports, cfg>>

Outcomes == {"exit0", "nonzero", "launchfail"}

\* what the tool writes (its content is the tool's business)
ToolReport(kind) ==
    IF kind = "scan" THEN [type |-> "scan", findings |-> <<>>]
    ELSE [type |-> "inventory", data |-> [nodes |-> <<>>, edges |-> <<>>]]

\* the task registered by _kick with bg.add_task is started by the event loop
\* once the handler has returned and its response is sent, so not while a
\* scan handler holds the loop
TaskReady_AtKick(i) == pc[i] \in {"add_read", "add_trunc", "add_write", "task"}

TaskReady(i) == pc[i] = "task" /\ ~ LoopBusy

\* the response is sent (the client has the record) and the task is handed
\* to the thread pool, where it calls subprocess.run with the command made
\* by the handler
TaskStart(i) ==
    /\ TaskReady(i)
    /\ pc' = [pc EXCEPT ![i] = "tool"]
    /\ req' = [req EXCEPT ![i].seen = TRUE]
    /\ UNCHANGED <<runsFile, run, lst, outcome, clock, lastOp, reports, cfg>>

\* task(): subprocess.run(cmd, check=True).  Exit 0 goes on to
\* _set_status(rid, "done"); a nonzero exit raises CalledProcessError, which is
\* caught and goes on to _set_status(rid, "error"); a failure to launch raises
\* OSError (FileNotFoundError ...), which the except clause does not catch.
\* The tool (a black box) writes its report at the --output path when it exits
\* 0; after a nonzero exit a report may or may not have been written.
TaskRun(i, oc) ==
    /\ pc[i] = "tool"
    /\ outcome' = [outcome EXCEPT ![i] = oc]
    /\ pc' = [pc EXCEPT ![i] = IF oc = "launchfail" THEN "dead" ELSE "set_read"]
    /\ \E written \in BOOLEAN :
          reports' = IF oc = "exit0" \/ (oc = "nonzero" /\ written)
                     THEN WriteReport(reports, OutputPath(i), ToolReport(run[i].type))
                     ELSE reports
    /\ UNCHANGED <<runsFile, run, req, lst, clock, lastOp, cfg>>

\* the status the task hands to _set_status
TaskStatus(i) == IF outcome[i] = "exit0" THEN "done" ELSE "error"

\* _set_status: lst = _runs(); the loop.  A JSONDecodeError ends the task.
SetRead(i) ==
    /\ pc[i] = "set_read"
    /\ IF LoadRaises(runsFile)
       THEN /\ pc' = [pc EXCEPT ![i] = "dead"]
            /\ UNCHANGED lst
       ELSE /\ lst' = [lst EXCEPT ![i] =
                          SetStatusList(Runs(runsFile), i, TaskStatus(i))]
            /\ pc' = [pc EXCEPT ![i] = "set_trunc"]
    /\ UNCHANGED <<runsFile, run, req, outcome, clock, lastOp, reports, cfg>>

SetTrunc(i) ==
    /\ pc[i] = "set_trunc"
    /\ runsFile' = TruncatedFile
    /\ pc' = [pc EXCEPT ![i] = "set_write"]
    /\ UNCHANGED <<run, req, lst, outcome, clock, lastOp, reports, cfg>>

SetWrite(i) ==
    /\ pc[i] = "set_write"
    /\ runsFile' = WriteOver(runsFile, WrittenFile(SaveRunsText(lst[i])))
    /\ pc' = [pc EXCEPT ![i] = "end"]
    /\ UNCHANGED <<run, req, lst, outcome, clock, lastOp, reports, cfg>>

Next ==
    \/ \E b \in CfgInputs : CfgTrunc(b)
    \/ \E b \in CfgInputs : CfgWrite(b)
    \/ \E i \in RunIds, p \in PathInputs, f \in UploadInputs : SubmitScan(i, p, f)
    \/ \E i \in RunIds : ResumeScan(i)
    \/ \E i \in RunIds : UploadWrite(i)
    \/ \E i \in RunIds : UploadDone(i)
    \/ \E i \in RunIds, p \in PathInputs : SubmitInventory(i, p)
    \/ \E i \in RunIds : RecordInventory(i)
    \/ \E i \in RunIds : AddRead(i)
    \/ \E i \in RunIds : AddTrunc(i)
    \/ \E i \in RunIds : AddWrite(i)
    \/ \E i \in RunIds : TaskStart(i)
    \/ \E i \in RunIds, oc \in Outcomes : TaskRun(i, oc)
    \/ \E i \in RunIds : SetRead(i)
    \/ \E i \in RunIds : SetTrunc(i)
    \/ \E i \in RunIds : SetWrite(i)

Spec == Init /\ [][Next]_vars

\* ------------------------------------------------------------- registry calls
\* The registry functions called one at a time, each running to its end before
\* the next starts, with any run id, as a caller of _add_run / _set_status may.
Terminal == {"done", "error"}

RegAddRun(rid, kind, us) ==
    /\ ~ LoadRaises(runsFile)
    /\ Len(Runs(runsFile)) < MaxRecs
    /\ clock' = clock + 1
    /\ LET r == RunSummary(rid, kind, now(clock', us), "pending", source_path) IN
        /\ runsFile' = AddRunFile(runsFile, r)
        /\ lastOp' = [op |-> "add_run", rid |-> rid, kind |-> kind, us |-> us,
                      found |-> FirstIndex(Runs(runsFile), rid) # 0,
                      st |-> "pending"]
    /\ UNCHANGED <<pc, run, req, lst, outcome, reports, cfg>>

RegSetStatus(rid, st) ==
    /\ ~ LoadRaises(runsFile)
    /\ runsFile' = SetStatusFile(runsFile, rid, st)
    /\ lastOp' = [op |-> "set_status", rid |-> rid,
                  found |-> FirstIndex(Runs(runsFile), rid) # 0,
                  st |-> st]
    /\ UNCHANGED <<pc, run, req, lst, outcome, clock, reports, cfg>>

NextReg ==
    \/ \E rid \in RunIds, kind \in Kinds, us \in {0, 1} : RegAddRun(rid, kind, us)
    \/ \E rid \in RunIds, st \in Terminal : RegSetStatus(rid, st)

SpecReg == Init /\ [][NextReg]_vars

\* ------------------------------------------------------------- observations
\* what a reader of the persisted registry sees for run id i
Shown(i) == lookup(runsFile, i)
ShownStatus(i) == IF Shown(i) = NoRun THEN "absent" ELSE Shown(i).status

\* the registry can be read (runs.json is absent or a whole document)
Readable == ~ LoadRaises(runsFile)

\* _add_run(run[i]) has written its list, which ends with run i's record
Persisted(i) == pc[i] \in {"task", "tool", "set_read", "set_trunc", "set_write", "end", "dead"}

\* _set_status of run i's task has written a list holding run i's record, so
\* the registry showed run i with the terminal status TaskStatus(i)
WroteTerminal(i) == pc[i] = "end" /\ FirstIndex(lst[i], i) # 0

\* no handler and no task is between its first and its last step
Quiet == \A i \in RunIds : pc[i] \in {"new", "http500", "end", "dead"}

\* ------------------------------------------------------------- claims
\* C1: terminal status is permanent: once the persisted registry has shown a
\* run as done or error, every later readable state of the registry shows
\* that same status for it, under any interleaving of submissions and
\* completions.
C1_TerminalPermanent ==
    \A i \in RunIds :
        (WroteTerminal(i) /\ Readable) => ShownStatus(i) = TaskStatus(i)

\* C2: no lost updates: when the completion tasks of two different runs have
\* both run _set_status to its end, the registry holds the terminal status
\* of both runs.
C2_NoLostUpdate ==
    \A i, j \in RunIds :
        (i # j /\ WroteTerminal(i) /\ WroteTerminal(j) /\ Quiet)
            => (ShownStatus(i) = TaskStatus(i) /\ ShownStatus(j) = TaskStatus(j))

\* C3: eventual outcome: once every handler and task has run to its end, each
\* submitted run whose process exited with code 0 has status done in the
\* registry and each whose process exited nonzero has status error (the final
\* state of the registry, which no later step changes).
C3_EventualOutcome ==
    Quiet =>
        \A i \in RunIds :
            /\ outcome[i] = "exit0" => ShownStatus(i) = "done"
            /\ outcome[i] = "nonzero" => ShownStatus(i) = "error"

\* C4: a submission whose target path resolves outside the workspace root is
\* rejected before any job is created: the registry never holds a record of
\* it and no external process is run for it.
C4_PathEscapeRejected ==
    \A i \in RunIds :
        (pc[i] # "new" /\ UserTarget(i) /\ SafeRaises(Target(i)))
            => (~ Persisted(i) /\ ShownStatus(i) = "absent" /\ outcome[i] = "none")

\* C5: when the external tool cannot be launched, the background task calls
\* _set_status(rid, "error"): once all is quiet the run has status error and
\* is not left pending.
C5_LaunchFailureIsError ==
    \A i \in RunIds :
        (outcome[i] = "launchfail" /\ Quiet /\ Readable) => ShownStatus(i) = "error"

\* C6: run records are never deleted: once _add_run has persisted the record
\* of a run id, every later readable registry holds a record with that id.
C6_NeverDeleted ==
    \A i \in RunIds :
        (Persisted(i) /\ Readable) => ShownStatus(i) # "absent"

\* C7: registry writes are atomic: at every moment the persisted file, when
\* it exists, is a whole document (the collection before or after a mutation),
\* never a partial or unparsable text.
C7_AtomicWrite == runsFile.exists => runsFile.complete

\* C8: create fails when a record with the same id exists and leaves the
\* registry unchanged, so no registry state holds two records with one id.
C8_NoDuplicateIds ==
    \A k, m \in 1..Len(Runs(runsFile)) :
        k # m => Runs(runsFile)[k].run_id # Runs(runsFile)[m].run_id

\* C9: after create(r) of a new run, lookup(r.id) returns status pending; after
\* setStatus(id, done) of a recorded run, lookup(id) returns done, and every
\* other record (id, type, created, status, path) and the order of the
\* records are as before the call.
C9_CreateSetStatusFrame ==
    [][ /\ (lastOp'.op = "add_run" /\ ~ lastOp'.found)
            => lookup(runsFile', lastOp'.rid).status = "pending"
        /\ (lastOp'.op = "set_status" /\ lastOp'.st = "done" /\ lastOp'.found)
            => LET old == Runs(runsFile)
                   new == Runs(runsFile')
                   k == FirstIndex(old, lastOp'.rid)
               IN /\ lookup(runsFile', lastOp'.rid).status = "done"
                  /\ Len(new) = Len(old)
                  /\ \A m \in 1..Len(old) : m # k => new[m] = old[m]
                  /\ new[k] = [old[k] EXCEPT !.status = "done"]
      ]_vars

\* a recorded pending run was set to done while another run's record stood by
C9_Witness ==
    /\ lastOp.op = "set_status" /\ lastOp.st = "done" /\ lastOp.found
    /\ ShownStatus(lastOp.rid) = "done"
    /\ \E m \in 1..Len(Runs(runsFile)) :
          /\ Runs(runsFile)[m].run_id # lastOp.rid
          /\ Runs(runsFile)[m].status = "pending"

\* C10: setStatus only transitions a record that is pending; when no record
\* has the id, it does not raise and the records and their statuses are
\* unchanged.
C10_OnlyPendingTransitions ==
    [][ lastOp'.op = "set_status"
            => LET old == Runs(runsFile)
                   new == Runs(runsFile')
               IN /\ Len(new) = Len(old)
                  /\ \A m \in 1..Len(old) :
                        new[m].status # old[m].status => old[m].status = "pending"
                  /\ ~ lastOp'.found => new = old
      ]_vars

\* C11: round trip and order: the list _add_run saves (the stored records and
\* the new in-memory record) is reloaded by _runs as the identical sequence,
\* same records, same field values, same order; list() returns the records in
\* the order of their creation, and _set_status keeps that order.
C11_RoundTripOrder ==
    [][ /\ lastOp'.op = "add_run"
            => LET r == RunSummary(lastOp'.rid, lastOp'.kind,
                                   now(clock', lastOp'.us), "pending", source_path)
                   L == Append(Runs(runsFile), r)
               IN /\ Runs(WrittenFile(SaveRunsText(L))) = L
                  /\ Runs(runsFile') = L
                  /\ \A k, m \in 1..Len(L) :
                        k < m => Runs(runsFile')[k].created.t
                                    < Runs(runsFile')[m].created.t
        /\ lastOp'.op = "set_status"
            => /\ Len(Runs(runsFile')) = Len(Runs(runsFile))
               /\ \A k \in 1..Len(Runs(runsFile)) :
                     /\ Runs(runsFile')[k].run_id = Runs(runsFile)[k].run_id
                     /\ Runs(runsFile')[k].created = Runs(runsFile)[k].created
      ]_vars

\* a registry of three records of both kinds, the last one just created
C11_Witness ==
    /\ lastOp.op = "add_run"
    /\ Len(Runs(runsFile)) >= 3
    /\ \E k, m \in 1..Len(Runs(runsFile)) :
          Runs(runsFile)[k].type # Runs(runsFile)[m].type
    /\ Runs(runsFile)[Len(Runs(runsFile))].created.t = clock
    /\ \E k, m \in 1..Len(Runs(runsFile)) :
          Runs(runsFile)[k].created.us # Runs(runsFile)[m].created.us

\* ------------------------------------------------------------- report queries
\* JSON text values are strings of characters: sequences of one-character
\* strings (names are shortened to one letter, "NUL" is the character \0).
\* A dict is a function on its keys.

\* d.get(k, default)
Get(d, k, default) == IF k \in DOMAIN d THEN d[k] ELSE default

\* a in b, for strings: a is a contiguous part of b
Contains(b, a) ==
    \E k \in 0..(Len(b) - Len(a)) : SubSeq(b, k + 1, k + Len(a)) = a

\* the JSON value of a finding's "location": a string, null, or a number
JStr(s) == [t |-> "str", s |-> s]
JNull == [t |-> "null"]
JNum == [t |-> "num"]

\* the text between the "/" of a path string
RECURSIVE SplitSlash(_, _, _)
SplitSlash(s, cur, acc) ==
    IF s = <<>> THEN Append(acc, cur)
    ELSE IF Head(s) = "/" THEN SplitSlash(Tail(s), <<>>, Append(acc, cur))
         ELSE SplitSlash(Tail(s), Append(cur, Head(s)), acc)

\* Path(s): the components, empty ones and "." dropped
Components(s) ==
    SelectSeq(SplitSlash(s, <<>>, <<>>), LAMBDA c : c # <<>> /\ c # <<".">>)
StrIsAbs(s) == Len(s) > 0 /\ s[1] = "/"

\* the server's working directory, Path.cwd(): "/w"
CwdParts == << <<"w">> >>

\* Path.resolve: made absolute from the working directory, ".." pops
RECURSIVE NormParts(_, _)
NormParts(acc, rest) ==
    IF rest = <<>> THEN acc
    ELSE IF Head(rest) = <<".", ".">>
         THEN NormParts(IF acc = <<>> THEN acc ELSE SubSeq(acc, 1, Len(acc) - 1),
                        Tail(rest))
         ELSE NormParts(Append(acc, Head(rest)), Tail(rest))

ResolveParts(s) ==
    NormParts(<<>>, IF StrIsAbs(s) THEN Components(s) ELSE CwdParts \o Components(s))

\* Path(s).resolve() raises ValueError on an embedded null character
ResolveRaises(s) == \E k \in 1..Len(s) : s[k] = "NUL"

\* str(rid), the name of the run's directory
RidStr(rid) == << IF rid = 1 THEN "1" ELSE IF rid = 2 THEN "2" ELSE "3" >>

\* base = (DATA_DIR / rid).resolve(), DATA_DIR being "/t"
BaseParts(rid) == << <<"t">>, RidStr(rid) >>

IsPrefix(base, parts) ==
    Len(parts) >= Len(base) /\ SubSeq(parts, 1, Len(base)) = base

\* str(path) of a relative path
RECURSIVE JoinSlash(_)
JoinSlash(ps) ==
    IF ps = <<>> THEN <<".">>
    ELSE IF Len(ps) = 1 THEN ps[1]
         ELSE ps[1] \o <<"/">> \o JoinSlash(Tail(ps))

\* the rewrite without resolve(): the location text compared as it stands
RewriteFinding_NoResolve(f, rid) ==
    LET loc == Get(f, "location", JNull) IN
    IF loc.t # "str" \/ loc.s = <<>> THEN f
    ELSE LET parts == Components(loc.s) IN
         IF StrIsAbs(loc.s) /\ IsPrefix(BaseParts(rid), parts)
         THEN [f EXCEPT !.location =
                  JStr(JoinSlash(SubSeq(parts, Len(BaseParts(rid)) + 1, Len(parts))))]
         ELSE f

\* results(): the body of the loop over the findings.  A missing, null or
\* empty location is skipped; any exception (a location that is no string, a
\* null character, a path not under base) leaves the finding as it is.
RewriteFinding(f, rid) ==
    LET loc == Get(f, "location", JNull) IN
    IF loc.t # "str" \/ loc.s = <<>> THEN f
    ELSE IF ResolveRaises(loc.s) THEN f
    ELSE LET parts == ResolveParts(loc.s) IN
         IF IsPrefix(BaseParts(rid), parts)
         THEN [f EXCEPT !.location =
                  JStr(JoinSlash(SubSeq(parts, Len(BaseParts(rid)) + 1, Len(parts))))]
         ELSE f

\* the sentinel returned while the report file does not exist
PendingBody == [status |-> "pending"]

\* results() with the pending test lost: a missing report is a 404
Results_NoPending(file, reps, rid) ==
    LET r == lookup(file, rid) IN
    IF r = NoRun \/ ReportPath(rid, r.type) \notin DOMAIN reps THEN [code |-> 404]
    ELSE IF reps[ReportPath(rid, r.type)] = BrokenReport THEN [code |-> 500]
    ELSE [code |-> 200, body |-> reps[ReportPath(rid, r.type)]]

\* GET /api/results/{rid}: the response (status code and body)
Results(file, reps, rid) ==
    IF LoadRaises(file) THEN [code |-> 500]
    ELSE LET r == lookup(file, rid) IN
         IF r = NoRun THEN [code |-> 404]
         ELSE LET fp == ReportPath(rid, r.type) IN
              IF fp \notin DOMAIN reps THEN [code |-> 200, body |-> PendingBody]
              ELSE LET data == reps[fp] IN
                   IF data = BrokenReport THEN [code |-> 500]
                   ELSE IF r.type # "scan" THEN [code |-> 200, body |-> data]
                   ELSE IF "findings" \notin DOMAIN data THEN [code |-> 500]
                   ELSE [code |-> 200,
                         body |-> [data EXCEPT !.findings =
                                     [k \in 1..Len(@) |-> RewriteFinding(@[k], rid)]]]

\* a criterion that is None or "" is not applied (if severity: ...)
NoCrit == <<>>

\* f.get("severity") == severity
SevKeep(f, severity) == "severity" \in DOMAIN f /\ f.severity = severity
\* owasp_id in f.get("owasp_id", "")
OwaspKeep(f, owasp_id) == Contains(Get(f, "owasp_id", <<>>), owasp_id)
\* component in f.get("location", "")
LocOf(f) == Get(f, "location", JStr(<<>>))
CompKeep(f, component) == LocOf(f).t = "str" /\ Contains(LocOf(f).s, component)

\* the first two filters of filter_scan
FilterSevOwasp(findings, severity, owasp_id) ==
    LET f1 == IF severity # NoCrit
              THEN SelectSeq(findings, LAMBDA f : SevKeep(f, severity))
              ELSE findings
    IN IF owasp_id # NoCrit
       THEN SelectSeq(f1, LAMBDA f : OwaspKeep(f, owasp_id))
       ELSE f1

\* the three filters of filter_scan, one after the other
FilterFindings(findings, severity, owasp_id, component) ==
    LET f2 == FilterSevOwasp(findings, severity, owasp_id)
    IN IF component # NoCrit
       THEN SelectSeq(f2, LAMBDA f : CompKeep(f, component))
       ELSE f2

\* `component in location` raises TypeError when a finding that reaches the
\* third filter has a location that is no string
FilterRaises(findings, severity, owasp_id, component) ==
    /\ component # NoCrit
    /\ LET f2 == FilterSevOwasp(findings, severity, owasp_id)
       IN \E k \in 1..Len(f2) : LocOf(f2[k]).t # "str"

\* GET /api/results/{rid}/filter
FilterScan(file, reps, rid, severity, owasp_id, component) ==
    LET res == Results(file, reps, rid) IN
    IF res.code # 200 THEN res
    ELSE LET data == res.body IN
         IF Get(data, "status", "") = "pending" THEN res
         ELSE IF "type" \notin DOMAIN data THEN [code |-> 500]
         ELSE IF data.type # "scan" THEN [code |-> 400]
         ELSE LET findings == Get(data, "findings", <<>>) IN
              IF FilterRaises(findings, severity, owasp_id, component)
              THEN [code |-> 500]
              ELSE [code |-> 200,
                    body |-> [k \in (DOMAIN data) \cup {"findings"} |->
                                IF k = "findings"
                                THEN FilterFindings(findings, severity,
                                                    owasp_id, component)
                                ELSE data[k]]]

\* Query(1, ge=1, le=5)
DepthMin == 1
DepthMax == 5

\* one hop that follows the edges only from source to target
NextFrontier_Directed(frontier, edges) ==
    {e.target : e \in {x \in {edges[k] : k \in 1..Len(edges)} : x.source \in frontier}}

\* one hop of subgraph(): the set comprehension over the edges
NextFrontier(frontier, edges) ==
    {IF e.target \in frontier THEN e.source ELSE e.target :
        e \in {x \in {edges[k] : k \in 1..Len(edges)} : x.source \in frontier \/ x.target \in frontier}}

\* for _ in range(depth): frontier = ...; keep |= frontier
RECURSIVE Keep(_, _, _, _)
Keep(frontier, keep, n, edges) ==
    IF n = 0 THEN keep
    ELSE LET nf == NextFrontier(frontier, edges)
         IN Keep(nf, keep \cup nf, n - 1, edges)

\* GET /api/inventory/{rid}/subgraph
Subgraph(file, reps, rid, node, depth) ==
    LET res == Results(file, reps, rid) IN
    IF depth < DepthMin \/ depth > DepthMax THEN [code |-> 422]
    ELSE IF res.code # 200 THEN res
    ELSE LET data == res.body IN
         IF Get(data, "status", "") = "pending" THEN res
         ELSE IF "type" \notin DOMAIN data THEN [code |-> 500]
         ELSE IF data.type # "inventory" THEN [code |-> 400]
         ELSE IF "data" \notin DOMAIN data THEN [code |-> 500]
         ELSE LET nodes == data.data.nodes
                  edges == data.data.edges
                  keep == Keep({node}, {node}, depth, edges)
              IN [code |-> 200,
                  body |-> [nodes |-> SelectSeq(nodes, LAMBDA n : n.id \in keep),
                            edges |-> SelectSeq(edges,
                                        LAMBDA e : e.source \in keep
                                                   /\ e.target \in keep)]]

\* max(runs, key=lambda r: r.created): the first record with the latest time
Latest(rs) ==
    rs[CHOOSE k \in 1..Len(rs) :
          /\ \A m \in 1..Len(rs) : rs[m].created.t <= rs[k].created.t
          /\ \A m \in 1..(k - 1) : rs[m].created.t < rs[k].created.t]

\* the report of a run as last_result / history embed it: the file's JSON as
\* it is, or None (json.loads raises on a file that is no JSON document)
RawReport(reps, r) ==
    IF ReportPath(r.run_id, r.type) \in DOMAIN reps
    THEN reps[ReportPath(r.run_id, r.type)] ELSE JNull

\* GET /api/last-result
LastResult(file, reps) ==
    IF LoadRaises(file) THEN [code |-> 500]
    ELSE IF Runs(file) = <<>> THEN [code |-> 200, body |-> [run |-> JNull, report |-> JNull]]
    ELSE IF RawReport(reps, Latest(Runs(file))) = BrokenReport THEN [code |-> 500]
    ELSE [code |-> 200,
          body |-> [run |-> Latest(Runs(file)),
                    report |-> RawReport(reps, Latest(Runs(file)))]]

\* GET /api/history
History(file, reps) ==
    IF LoadRaises(file) THEN [code |-> 500]
    ELSE IF \E k \in 1..Len(Runs(file)) :
               RawReport(reps, Runs(file)[k]) = BrokenReport
         THEN [code |-> 500]
    ELSE [code |-> 200,
          body |-> [k \in 1..Len(Runs(file)) |->
                      [type |-> Runs(file)[k].type,
                       date |-> isoformat(Runs(file)[k].created),
                       scanned_path |->
                           Get(RawReport(reps, Runs(file)[k]), "scanned_path", JNull),
                       errors |-> Get(RawReport(reps, Runs(file)[k]), "errors", JNull),
                       run |-> Runs(file)[k],
                       report |-> RawReport(reps, Runs(file)[k])]]]

\* GET /api/runs
ListRuns(file) ==
    IF LoadRaises(file) THEN [code |-> 500] ELSE [code |-> 200, body |-> Runs(file)]

\* ------------------------------------------------------------- query inputs
\* Bounds of the stored reports and of the paths given to _safe.
MaxFindings == 2
MaxEdges == 3
MaxPathLen == 3

SeqsUpTo(S, n) == UNION {[1..k -> S] : k \in 0..n}

\* location texts of the findings of run 1, whose directory is /t/1
LocInside == <<"/", "t", "/", "1", "/", "s", "/", "a">>
LocInsideDots == <<"/", "t", "/", "1", "/", "s", "/", ".", ".", "/", "a">>
LocBase == <<"/", "t", "/", "1">>
LocSibling == <<"/", "t", "/", "1", "/", ".", ".", "/", "2", "/", "a">>
LocOutside == <<"/", "w", "/", "a">>
LocRelative == <<"s", "/", "a">>
LocNul == <<"/", "t", "/", "1", "/", "NUL">>

Finding(sev, owasp, loc) == [severity |-> sev, owasp_id |-> owasp, location |-> loc]

\* findings as the tool may write them: the location inside the run's
\* directory, outside it, relative, empty, unparsable, null, no string, missing
FindingInputs ==
    {Finding(<<"h">>, <<"L", "1">>, JStr(l)) :
        l \in {LocInside, LocInsideDots, LocBase, LocSibling, LocOutside,
               LocRelative, LocNul, <<>>}}
    \cup {Finding(<<"l">>, <<"L", "2">>, JStr(LocInside)),
          Finding(<<"l">>, <<"L", "1">>, JStr(LocOutside)),
          Finding(<<"h">>, <<"L", "2">>, JNull),
          Finding(<<"l">>, <<"L", "1">>, JNum),
          [severity |-> <<"h">>, owasp_id |-> <<"L", "1">>],
          [severity |-> <<"l">>, location |-> JStr(LocInside)],
          [owasp_id |-> <<"L", "2">>, location |-> JStr(LocOutside)]}

FindingLists == SeqsUpTo(FindingInputs, MaxFindings)

\* a scan report the way the code reads it, with its "type"
ScanReport(findings) ==
    [type |-> "scan", findings |-> findings, scanned_path |-> <<"w">>, errors |-> <<>>]

\* scan reports: with every list of findings; in the shape of the interface
\* description (findings, scanned path, errors, no "type"); without findings
ScanReports ==
    {ScanReport(fl) : fl \in FindingLists}
    \cup {[findings |-> <<Finding(<<"h">>, <<"L", "1">>, JStr(LocInside))>>,
           scanned_path |-> <<"w">>, errors |-> <<>>],
          [type |-> "scan", scanned_path |-> <<"w">>, errors |-> <<>>]}

Node(id) == [id |-> id]
Edge(s, t) == [source |-> s, target |-> t]

\* graphs: on the nodes A..C every list of at most MaxEdges edges (loops
\* included); on the nodes A..D every such list of edges along the chain
\* A-B-C-D, in either direction
NodeList3 == <<Node("A"), Node("B"), Node("C")>>
NodeList4 == <<Node("A"), Node("B"), Node("C"), Node("D")>>
IdsOf(nodes) == {nodes[k].id : k \in 1..Len(nodes)}
AllEdges3 == {Edge(s, t) : s \in IdsOf(NodeList3), t \in IdsOf(NodeList3)}
ChainEdges4 == {Edge("A", "B"), Edge("B", "A"), Edge("B", "C"), Edge("C", "B"),
                Edge("C", "D"), Edge("D", "C")}
Graphs ==
    {[nodes |-> NodeList3, edges |-> es] : es \in SeqsUpTo(AllEdges3, MaxEdges)}
    \cup {[nodes |-> NodeList4, edges |-> es] : es \in SeqsUpTo(ChainEdges4, MaxEdges)}

\* an inventory report the way the code reads it
InventoryReport(g) == [type |-> "inventory", data |-> g]

PathGraph ==
    [nodes |-> <<Node("A"), Node("B"), Node("C"), Node("D")>>,
     edges |-> <<Edge("A", "B"), Edge("B", "C"), Edge("C", "D")>>]

\* inventory reports: with every graph; in the shape of the interface
\* description ({graph: {nodes, edges}}, no "type")
InventoryReports ==
    {InventoryReport(g) : g \in Graphs} \cup {[graph |-> PathGraph]}

\* The stored state the queries run on: run 1 is a scan, run 2 an inventory,
\* each done with its report on disk or pending without one; id 3 is unknown.
QueryIds == {1, 2, 3}

StoredRuns(reps) ==
    << RunSummary(1, "scan", now(1, 1),
                  IF ReportPath(1, "scan") \in DOMAIN reps THEN "done" ELSE "pending",
                  source_path),
       RunSummary(2, "inventory", now(2, 0),
                  IF ReportPath(2, "inventory") \in DOMAIN reps THEN "done" ELSE "pending",
                  source_path) >>

\* the report files: one of the two reports ranges over its whole set while
\* the other is absent or a fixed one
ReportStores ==
    {NoReports}
    \cup {WriteReport(NoReports, ReportPath(1, "scan"), s) : s \in ScanReports}
    \cup {WriteReport(NoReports, ReportPath(2, "inventory"), g) : g \in InventoryReports}
    \cup {WriteReport(WriteReport(NoReports, ReportPath(1, "scan"), s),
                      ReportPath(2, "inventory"), InventoryReport(PathGraph)) :
            s \in {ScanReport(<<>>),
                   ScanReport(<<Finding(<<"h">>, <<"L", "1">>, JStr(LocInside))>>)}}

QInit ==
    /\ reports \in ReportStores
    /\ runsFile = WrittenFile(SaveRunsText(StoredRuns(reports)))
    /\ pc = [i \in RunIds |-> "new"]
    /\ run = [i \in RunIds |-> NoRun]
    /\ req = [i \in RunIds |-> NoReq]
    /\ lst = [i \in RunIds |-> <<>>]
    /\ outcome = [i \in RunIds |-> "none"]
    /\ clock = 2
    /\ cfg = CfgAbsent
    /\ lastOp = NoOp

\* the report file a read handler leaves behind, were it to write back the
\* body it returns
ReadEffect_WriteBack(reps, file, rid, resp) ==
    IF resp.code = 200 /\ Get(resp.body, "status", "") # "pending"
    THEN WriteReport(reps, ReportPath(rid, lookup(file, rid).type), resp.body)
    ELSE reps

\* the report files after results / filter_scan / subgraph: the handlers only
\* read fp (fp.read_text()); the data they change is the parsed copy
ReadEffect(reps, file, rid, resp) == reps

\* Query inputs.  The filter criteria range over their whole sets for the scan
\* run, the seeds and depths for the inventory run; the other run and the
\* unknown id get one query each way.
SevInputs == {NoCrit, <<"h">>, <<"l">>}
OwaspInputs == {NoCrit, <<"L">>, <<"L", "1">>}
CompInputs == {NoCrit, <<"s", "/">>, <<"a">>}
FilterInputs ==
    {<<1, s, o, c>> : s \in SevInputs, o \in OwaspInputs, c \in CompInputs}
    \cup {<<rid, s, NoCrit, NoCrit>> : rid \in {2, 3}, s \in {NoCrit, <<"h">>}}
Seeds == {"A", "C", "D"}
SubgraphInputs ==
    {<<2, n, d>> : n \in Seeds, d \in DepthMin..DepthMax}
    \cup {<<rid, "A", DepthMin>> : rid \in {1, 3}}

\* no request is being answered: lastOp holds a response until it is sent
QReady == lastOp = NoOp

\* the response is sent
QDone ==
    /\ lastOp # NoOp
    /\ lastOp' = NoOp
    /\ UNCHANGED <<runsFile, pc, run, req, lst, outcome, clock, reports, cfg>>

QRuns ==
    /\ QReady
    /\ lastOp' = [op |-> "runs", resp |-> ListRuns(runsFile)]
    /\ UNCHANGED <<runsFile, pc, run, req, lst, outcome, clock, reports, cfg>>

QResults(rid) ==
    /\ QReady
    /\ lastOp' = [op |-> "results", rid |-> rid,
                  resp |-> Results(runsFile, reports, rid)]
    /\ reports' = ReadEffect(reports, runsFile, rid, lastOp'.resp)
    /\ UNCHANGED <<runsFile, pc, run, req, lst, outcome, clock, cfg>>

QFilter(rid, severity, owasp_id, component) ==
    /\ QReady
    /\ lastOp' = [op |-> "filter", rid |-> rid, severity |-> severity,
                  owasp_id |-> owasp_id, component |-> component,
                  resp |-> FilterScan(runsFile, reports, rid, severity,
                                      owasp_id, component)]
    /\ reports' = ReadEffect(reports, runsFile, rid, lastOp'.resp)
    /\ UNCHANGED <<runsFile, pc, run, req, lst, outcome, clock, cfg>>

QSubgraph(rid, node, depth) ==
    /\ QReady
    /\ lastOp' = [op |-> "subgraph", rid |-> rid, node |-> node, depth |-> depth,
                  resp |-> Subgraph(runsFile, reports, rid, node, depth)]
    /\ UNCHANGED <<runsFile, pc, run, req, lst, outcome, clock, reports, cfg>>

QLastResult ==
    /\ QReady
    /\ lastOp' = [op |-> "last_result", resp |-> LastResult(runsFile, reports)]
    /\ UNCHANGED <<runsFile, pc, run, req, lst, outcome, clock, reports, cfg>>

QHistory ==
    /\ QReady
    /\ lastOp' = [op |-> "history", resp |-> History(runsFile, reports)]
    /\ UNCHANGED <<runsFile, pc, run, req, lst, outcome, clock, reports, cfg>>

\* paths given to _safe: relative and absolute ("/" first), with "." and
\* "..", plain names and names that start with "~"
PathNames == {".", "..", "a", "ws", "~", "~root", "~nouser"}
SafeInputs ==
    SeqsUpTo(PathNames, MaxPathLen)
    \cup {<<"/">> \o p : p \in SeqsUpTo(PathNames, MaxPathLen)}

\* _safe(path), as list_dir calls it
SafeCall(path) ==
    /\ QReady
    /\ lastOp' = [op |-> "_safe", path |-> path, raised |-> SafeRaises(path),
                  failed |-> SafeFails(path),
                  result |-> IF SafeFails(path) THEN NoPath ELSE SafeResolved(path)]
    /\ UNCHANGED <<runsFile, pc, run, req, lst, outcome, clock, reports, cfg>>

QNext ==
    \/ QRuns
    \/ \E rid \in QueryIds : QResults(rid)
    \/ \E q \in FilterInputs : QFilter(q[1], q[2], q[3], q[4])
    \/ \E q \in SubgraphInputs : QSubgraph(q[1], q[2], q[3])
    \/ QLastResult
    \/ QHistory
    \/ QDone

SpecQuery == QInit /\ [][QNext]_vars

\* _safe called with every path of SafeInputs
SafeNext ==
    \/ \E p \in SafeInputs : SafeCall(p)
    \/ QDone

SpecSafe == Init /\ [][SafeNext]_vars

\* ---------------------------------------------------------- claims on queries
\* the report file of the scan run (run 1) and of the inventory run (run 2)
StoredScan == reports[ReportPath(1, "scan")]
StoredInventory == reports[ReportPath(2, "inventory")]
HasScanReport == ReportPath(1, "scan") \in DOMAIN reports
HasInventoryReport == ReportPath(2, "inventory") \in DOMAIN reports

\* a finding satisfies every supplied criterion
C12_Satisfies(f, severity, owasp_id, component) ==
    /\ severity # NoCrit => ("severity" \in DOMAIN f /\ f.severity = severity)
    /\ owasp_id # NoCrit => ("owasp_id" \in DOMAIN f /\ Contains(f.owasp_id, owasp_id))
    /\ component # NoCrit
          => ("location" \in DOMAIN f /\ f.location.t = "str"
              /\ Contains(f.location.s, component))

\* the filter is asked of the scan run, whose report carries "type": "scan"
\* and its findings
C12_Case ==
    /\ lastOp.op = "filter" /\ lastOp.rid = 1
    /\ HasScanReport
    /\ "type" \in DOMAIN StoredScan /\ StoredScan.type = "scan"
    /\ "findings" \in DOMAIN StoredScan

\* C12: the findings filter on a completed scan run returns exactly the
\* findings of the loaded report (locations already rewritten), in their
\* original order, that satisfy every supplied criterion: severity equal,
\* owasp_id containing the given text, location containing the given
\* component; with no criterion the list is returned unchanged, and the other
\* fields of the report are returned as they are.
C12_FilterExact ==
    C12_Case =>
        LET loaded == Results(runsFile, reports, 1).body
            sat(f) == C12_Satisfies(f, lastOp.severity, lastOp.owasp_id,
                                    lastOp.component)
        IN /\ lastOp.resp.code = 200
           /\ lastOp.resp.body.findings = SelectSeq(loaded.findings, sat)
           /\ (lastOp.severity = NoCrit /\ lastOp.owasp_id = NoCrit
                   /\ lastOp.component = NoCrit)
                 => lastOp.resp.body = loaded
           /\ \A k \in DOMAIN loaded :
                 k # "findings" => lastOp.resp.body[k] = loaded[k]

\* C13: the findings filter on a completed inventory run, and the subgraph
\* query on a completed scan run, answer with the bad-request status (400),
\* whatever the shape of the stored report.
C13_WrongRunTypeBadRequest ==
    /\ (lastOp.op = "filter" /\ lastOp.rid = 2 /\ HasInventoryReport)
          => lastOp.resp.code = 400
    /\ (lastOp.op = "subgraph" /\ lastOp.rid = 1 /\ HasScanReport
            /\ "findings" \in DOMAIN StoredScan)
          => lastOp.resp.code = 400

\* walks of the graph, edges taken in either direction
C14_Adjacent(edges, a, b) ==
    \E k \in 1..Len(edges) :
        \/ (edges[k].source = a /\ edges[k].target = b)
        \/ (edges[k].source = b /\ edges[k].target = a)

\* node b is within d steps of node a: some sequence of at most d adjacent
\* steps leads from a to b
C14_Within(g, a, b, d) ==
    \E n \in 0..d :
        \E w \in [1..(n + 1) -> IdsOf(g.nodes) \cup {a}] :
            /\ w[1] = a /\ w[n + 1] = b
            /\ \A k \in 1..n : C14_Adjacent(g.edges, w[k], w[k + 1])

C14_Case ==
    /\ lastOp.op = "subgraph" /\ lastOp.rid = 2
    /\ HasInventoryReport
    /\ "type" \in DOMAIN StoredInventory /\ StoredInventory.type = "inventory"

\* C14: for every stored graph, seed and depth in 1..5, subgraph returns as
\* nodes exactly the nodes of the graph, in their order, whose undirected
\* distance from the seed is at most depth, and as edges exactly the edges of
\* the graph, in their order, with both endpoints in that set; on the path
\* graph A-B-C-D, seed A, depth 1 gives nodes A, B and edge A-B, depth 2 gives
\* nodes A, B, C and edges A-B, B-C.
C14_Neighborhood ==
    C14_Case =>
        LET g == StoredInventory.data
            \* a shortest path has fewer steps than the graph has nodes
            d == IF lastOp.depth < Len(g.nodes) THEN lastOp.depth ELSE Len(g.nodes)
            near(n) == C14_Within(g, lastOp.node, n.id, d)
            inside(e) == /\ C14_Within(g, lastOp.node, e.source, d)
                         /\ C14_Within(g, lastOp.node, e.target, d)
        IN /\ lastOp.resp.code = 200
           /\ lastOp.resp.body.nodes = SelectSeq(g.nodes, near)
           /\ lastOp.resp.body.edges = SelectSeq(g.edges, inside)
           /\ (g = PathGraph /\ lastOp.node = "A" /\ lastOp.depth = 1)
                 => /\ lastOp.resp.body.nodes = <<Node("A"), Node("B")>>
                    /\ lastOp.resp.body.edges = <<Edge("A", "B")>>
           /\ (g = PathGraph /\ lastOp.node = "A" /\ lastOp.depth = 2)
                 => /\ lastOp.resp.body.nodes = <<Node("A"), Node("B"), Node("C")>>
                    /\ lastOp.resp.body.edges = <<Edge("A", "B"), Edge("B", "C")>>

\* a node was reached against the direction of an edge, two hops away
C14_Witness ==
    /\ C14_Case
    /\ lastOp.node = "C" /\ lastOp.depth = 2
    /\ StoredInventory.data.edges = <<Edge("A", "B"), Edge("B", "C")>>
    /\ Len(lastOp.resp.body.nodes) = 3

\* the locations of the stored findings and what each is when read back: the
\* three that lie in /t/1 relative to it, every other one as it is
C15_Expected(loc) ==
    IF loc = LocInside THEN <<"s", "/", "a">>
    ELSE IF loc = LocInsideDots THEN <<"a">>
    ELSE IF loc = LocBase THEN <<".">>
    ELSE loc

C15_Case ==
    /\ lastOp.op = "results" /\ lastOp.rid = 1
    /\ HasScanReport
    /\ "findings" \in DOMAIN StoredScan

\* C15: reading a scan report returns every finding whose location is an
\* absolute path inside the run's own directory with the location relative to
\* that directory, and every other finding (location outside, relative,
\* missing, null, no string, empty, unparsable) unchanged; the read succeeds,
\* the number and order of the findings and all other fields are preserved.
C15_LocationRewrite ==
    C15_Case =>
        /\ lastOp.resp.code = 200
        /\ DOMAIN lastOp.resp.body = DOMAIN StoredScan
        /\ \A k \in DOMAIN StoredScan :
              k # "findings" => lastOp.resp.body[k] = StoredScan[k]
        /\ Len(lastOp.resp.body.findings) = Len(StoredScan.findings)
        /\ \A k \in 1..Len(StoredScan.findings) :
              LET f == StoredScan.findings[k] IN
              lastOp.resp.body.findings[k] =
                  IF "location" \in DOMAIN f /\ f.location.t = "str"
                  THEN [f EXCEPT !.location = JStr(C15_Expected(f.location.s))]
                  ELSE f

\* a report read with one location rewritten (".." resolved) and an
\* unparsable one left as it is
C15_Witness ==
    /\ C15_Case
    /\ Len(StoredScan.findings) = 2
    /\ StoredScan.findings[1] = Finding(<<"h">>, <<"L", "1">>, JStr(LocInsideDots))
    /\ StoredScan.findings[2] = Finding(<<"h">>, <<"L", "1">>, JStr(LocNul))
    /\ lastOp.resp.code = 200
    /\ lastOp.resp.body.findings[1].location = JStr(<<"a">>)
    /\ lastOp.resp.body.findings[2].location = JStr(LocNul)

\* the run a query names is in the registry and its report file is not there
C16_ReportMissing ==
    \/ (lastOp.rid = 1 /\ ~ HasScanReport)
    \/ (lastOp.rid = 2 /\ ~ HasInventoryReport)

\* C16: for an unknown run id the result query answers not-found (404); for a
\* known run whose report file does not exist it answers 200 with the pending
\* sentinel {"status": "pending"}, and the filter and subgraph queries return
\* that same sentinel.
C16_LookupOutcome ==
    /\ (lastOp.op = "results" /\ lookup(runsFile, lastOp.rid) = NoRun)
          => lastOp.resp = [code |-> 404]
    /\ (lastOp.op \in {"results", "filter", "subgraph"} /\ C16_ReportMissing)
          => lastOp.resp = [code |-> 200, body |-> PendingBody]

\* the filter query on the scan run while its report is not written
C16_Witness ==
    /\ lastOp.op = "filter" /\ lastOp.rid = 1 /\ lastOp.severity # NoCrit
    /\ ~ HasScanReport
    /\ lookup(runsFile, 1).status = "pending"
    /\ lastOp.resp.body = PendingBody

\* C17: a read query (list runs, results, last result, history, filter,
\* subgraph) leaves runs.json and every report file exactly as they were, so
\* the result query on any run answers after it what it answered before it.
C17_ReadsDoNotMutate ==
    [][ /\ runsFile' = runsFile
        /\ reports' = reports
        /\ \A rid \in QueryIds :
              Results(runsFile', reports', rid) = Results(runsFile, reports, rid)
      ]_vars

\* a filter query that left findings out of its answer
C17_Witness ==
    /\ lastOp.op = "filter" /\ lastOp.rid = 1
    /\ HasScanReport /\ "findings" \in DOMAIN StoredScan
    /\ lastOp.resp.code = 200
    /\ Len(lastOp.resp.body.findings) < Len(StoredScan.findings)
    /\ Len(Results(runsFile, reports, 1).body.findings) = Len(StoredScan.findings)

\* ------------------------------------------------------------ claim on _safe
\* the canonical form of an absolute path, by rewriting: the first "." is
\* removed, or the first ".." together with the component before it (alone
\* when it follows the root), until none is left
C18_FirstDot(p) ==
    IF \E k \in 2..Len(p) : p[k] \in {".", ".."}
    THEN CHOOSE k \in 2..Len(p) :
            /\ p[k] \in {".", ".."}
            /\ \A m \in 2..(k - 1) : p[m] \notin {".", ".."}
    ELSE 0

RECURSIVE C18_Canonical(_)
C18_Canonical(p) ==
    LET k == C18_FirstDot(p) IN
    IF k = 0 THEN p
    ELSE IF p[k] = "." \/ k = 2
         THEN C18_Canonical(SubSeq(p, 1, k - 1) \o SubSeq(p, k + 1, Len(p)))
         ELSE C18_Canonical(SubSeq(p, 1, k - 2) \o SubSeq(p, k + 1, Len(p)))

\* the path the input names: itself when absolute, under the home directory
\* when its first component (the "." ones aside) is "~" or "~root", else
\* under the sandbox root
C18_SkipDots(path) ==
    IF \E k \in 1..Len(path) : path[k] # "."
    THEN SubSeq(path, CHOOSE k \in 1..Len(path) :
                          path[k] # "." /\ \A m \in 1..(k - 1) : path[m] = ".",
                Len(path))
    ELSE <<>>

C18_Absolute(path) ==
    LET p == C18_SkipDots(path) IN
    IF p # <<>> /\ p[1] = "/" THEN p
    ELSE IF p # <<>> /\ p[1] \in {"~", "~root"} THEN <<"/", "root">> \o Tail(p)
    ELSE <<"/", "ws">> \o p

C18_UnderRoot(p) == Len(p) >= 2 /\ p[1] = "/" /\ p[2] = "ws"

\* C18: _safe rejects (403) every input path whose canonical form lies
\* outside the sandbox root, and for every other input returns that canonical
\* form, which lies under the root and which _safe returns unchanged when it
\* is given again.
C18_SafeGuard ==
    lastOp.op = "_safe" =>
        LET canon == C18_Canonical(C18_Absolute(lastOp.path)) IN
        IF C18_UnderRoot(canon)
        THEN /\ ~ lastOp.raised /\ ~ lastOp.failed
             /\ lastOp.result = canon
             /\ ~ SafeRaises(lastOp.result) /\ ~ SafeFails(lastOp.result)
             /\ SafeResolved(lastOp.result) = lastOp.result
        ELSE lastOp.raised


\* ------------------------------------------- claims on the order of the steps
\* the task of run i is started
C19_TaskStarts(i) == pc[i] # "tool" /\ pc'[i] = "tool"

\* the task of run i reads the registry in _set_status
C19_SetStatusReads(i) == pc[i] = "set_read" /\ pc'[i] # "set_read"

\* C19: for every run, the background task (the tool, then _set_status for
\* the run's id) runs only after _add_run has written the list that holds the
\* run's pending record, although _kick is called before _add_run; no
\* _set_status reads the registry before its own run's record was written.
C19_CreateBeforeComplete ==
    [][ \A i \in RunIds :
           (C19_TaskStarts(i) \/ C19_SetStatusReads(i))
              => /\ Persisted(i)
                 /\ FirstIndex(lst[i], i) # 0
                 /\ lst[i][FirstIndex(lst[i], i)].status = "pending"
                 /\ pc[i] \notin {"add_read", "add_trunc", "add_write"}
      ]_vars

\* the task of a scan has read the registry, which shows its run as pending
C19_Witness ==
    \E i \in RunIds :
        /\ pc[i] = "set_trunc"
        /\ run[i].type = "scan"
        /\ outcome[i] = "exit0"
        /\ Readable /\ ShownStatus(i) = "pending"

\* C20: in every state where the registry shows a run as done, the report
\* file at _report_path(run id, run type) exists, it is the path that was
\* given to the tool as --output, and the result query for the run does not
\* answer with the pending sentinel.
C20_DoneHasReport ==
    \A i \in RunIds :
        (Readable /\ ShownStatus(i) = "done")
            => /\ ReportPath(i, Shown(i).type) \in DOMAIN reports
               /\ ReportPath(i, Shown(i).type) = OutputPath(i)
               /\ Results(runsFile, reports, i).code = 200
               /\ Results(runsFile, reports, i).body # PendingBody

====
